---- MODULE Spec2Model ----
(***************************************************************************)
(* Model of gltf-json/src/extensions/material.rs: the Material extension   *)
(* slots, the lenient Checked<ColorSpace> codec, the serde-derived         *)
(* encode/decode of the payload structs and the Validate walk over them.   *)
(*                                                                         *)
(* Built with the features KHR_materials_pbrSpecularGlossiness and         *)
(* KHR_materials_unlit enabled.  An f32 is modelled on a grid: the integer *)
(* k stands for k / Resolution, so 1.0 is Resolution.                      *)
(***************************************************************************)
EXTENDS Integers, Sequences, FiniteSets, TLC

VARIABLES ty, wire, doc, at, report, prevReport, passes, out, doc2

vars == <<ty, wire, doc, at, report, prevReport, passes, out, doc2>>

(* ---------------------------- bounds ----------------------------------- *)
Resolution == 2
MaxOver == 1
MaxPasses == 2

(* ------------------------- serialized values --------------------------- *)
JStr(s) == [t |-> "str", v |-> s]
JNum(k) == [t |-> "num", v |-> k]
JBool == [t |-> "bool", v |-> TRUE]
JNull == [t |-> "null"]
JArr(a) == [t |-> "arr", v |-> a]
JObj(f) == [t |-> "obj", v |-> f]
Absent == [t |-> "absent"]

\* the members of an object under construction: keys marked Absent are left out
Members(f) == [k \in {x \in DOMAIN f : f[x].t # "absent"} |-> f[k]]

HasKey(o, k) == k \in DOMAIN o.v

(* ----------------------- results, options ------------------------------ *)
Ok(x) == [ok |-> TRUE, v |-> x]
Err(e) == [ok |-> FALSE, err |-> e]
None == [some |-> FALSE]
Some(x) == [some |-> TRUE, v |-> x]
Idle == [ok |-> FALSE, err |-> "not run"]

Valid(x) == [valid |-> TRUE, v |-> x]
Invalid == [valid |-> FALSE]

(* ----------------------------- ColorSpace ------------------------------ *)
ColorSpace == {"SRGB", "Linear"}

VALID_COLOR_SPACES == <<"sRGB", "linear">>

serialize_ColorSpace_swapped(c) ==
    IF c = "SRGB" THEN JStr("linear") ELSE JStr("sRGB")

serialize_ColorSpace(c) ==
    CASE c = "SRGB" -> JStr("sRGB")
      [] c = "Linear" -> JStr("linear")

visit_str_caseless(value) ==
    CASE value \in {"sRGB", "SRGB", "srgb"} -> Valid("SRGB")
      [] value \in {"linear", "Linear", "LINEAR"} -> Valid("Linear")
      [] OTHER -> Invalid

visit_str(value) ==
    CASE value = "sRGB" -> Valid("SRGB")
      [] value = "linear" -> Valid("Linear")
      [] OTHER -> Invalid

deserialize_Checked_ColorSpace_lenient(j) ==
    IF j.t = "str" THEN Ok(visit_str(j.v)) ELSE Ok(Invalid)

\* deserialize_str with a Visitor that only accepts visit_str
deserialize_Checked_ColorSpace(j) ==
    IF j.t = "str" THEN Ok(visit_str(j.v)) ELSE Err("invalid type")

default_ColorSpace == "Linear"

\* Checked<T>: Default, Serialize, Validate (crate::validation)
default_Checked_ColorSpace == Valid(default_ColorSpace)

serialize_Checked_ColorSpace(c) ==
    IF c.valid THEN Ok(serialize_ColorSpace(c.v)) ELSE Err("invalid item")

Finding(path, kind) == [path |-> path, kind |-> kind]

field(path, name) == Append(path, name)

validate_Checked(c, path) ==
    IF c.valid THEN <<>> ELSE <<Finding(path, "Invalid")>>

(* ------------------- collaborators: scalars, strings ------------------- *)
NumTextures == 1

One == Resolution

InUnitInterval(x) == 0 <= x /\ x <= One

deserialize_f32(j) ==
    IF j.t = "num" THEN Ok(j.v) ELSE Err("invalid type")

deserialize_String(j) ==
    IF j.t = "str" THEN Ok(j.v) ELSE Err("invalid type")

\* Option<T>: null decodes as None, anything else through T (result r)
deserialize_Option(j, r) ==
    IF j.t = "null" THEN Ok(None)
    ELSE IF r.ok THEN Ok(Some(r.v)) ELSE r

validate_String(s, path) == <<>>

validate_OptString(o, path) ==
    IF o.some THEN validate_String(o.v, path) ELSE <<>>

\* the value under a key of an object, Absent when the key is missing
Lookup(o, key) == IF HasKey(o, key) THEN o.v[key] ELSE Absent

\* a field of a struct: decoded (result r) from its own key, defaulted when missing
FieldOr(j, r, dflt) ==
    IF j.t = "absent" THEN Ok(dflt) ELSE r

\* the first failure among the decoded fields, in declaration order
FirstErr(rs) ==
    LET bad == {i \in DOMAIN rs : ~rs[i].ok}
    IN rs[CHOOSE i \in bad : \A k \in bad : i <= k]

AllOk(rs) == \A i \in DOMAIN rs : rs[i].ok

\* texture::Info
deserialize_Info(j) ==
    IF j.t # "obj" THEN Err("invalid type")
    ELSE IF ~HasKey(j, "index") THEN Err("missing field")
    ELSE LET i == deserialize_f32(j.v["index"])
         IN IF i.ok THEN Ok([index |-> i.v]) ELSE i

serialize_Info(i) == Ok(JObj([k \in {"index"} |-> JNum(i.index)]))

validate_Info(i, path) ==
    IF i.index < NumTextures THEN <<>>
    ELSE <<Finding(field(path, "index"), "IndexOutOfBounds")>>

deserialize_OptInfo(j) == deserialize_Option(j, deserialize_Info(j))

serialize_OptInfo(o) ==
    IF o.some THEN serialize_Info(o.v) ELSE Ok(JNull)

validate_OptInfo(o, path) ==
    IF o.some THEN validate_Info(o.v, path) ELSE <<>>

\* material::StrengthFactor
default_StrengthFactor == One

validate_StrengthFactor(x, path) ==
    IF InUnitInterval(x) THEN <<>> ELSE <<Finding(path, "Invalid")>>

(* ------------------ PbrDiffuseFactor, PbrSpecularFactor ---------------- *)
deserialize_Factor(j, n) ==
    IF j.t # "arr" THEN Err("invalid type")
    ELSE IF Len(j.v) # n THEN Err("invalid length")
    ELSE IF \E i \in 1..n : j.v[i].t # "num" THEN Err("invalid type")
    ELSE Ok([i \in 1..n |-> j.v[i].v])

serialize_Factor(f) == Ok(JArr([i \in DOMAIN f |-> JNum(f[i])]))

deserialize_PbrDiffuseFactor(j) == deserialize_Factor(j, 4)

deserialize_PbrSpecularFactor(j) == deserialize_Factor(j, 3)

default_PbrDiffuseFactor_black == <<0, 0, 0, One + 1>>

default_PbrDiffuseFactor == <<One, One, One, One>>

default_PbrSpecularFactor == <<One, One, One>>

\* impl Validate for PbrDiffuseFactor {} : no rule of its own
validate_PbrDiffuseFactor(f, path) == <<>>

\* impl Validate for PbrSpecularFactor {} : no rule of its own
validate_PbrSpecularFactor(f, path) == <<>>

(* ------------------------------- Unlit --------------------------------- *)
default_Unlit == [unlit |-> TRUE]

deserialize_Unlit(j) ==
    IF j.t = "obj" THEN Ok(default_Unlit) ELSE Err("invalid type")

serialize_Unlit(u) == Ok(JObj(<<>>))

validate_Unlit(u, path) == <<>>

(* ---------------------------- PbrAttributes --------------------------- *)
AttribFields == <<"base_color_attrib", "roughness_attrib", "metallic_attrib",
                  "occlusion_attrib", "emissive_attrib", "shadow_attrib">>

\* rename_all = "camelCase"
camelCase(name) ==
    CASE name = "base_color_attrib_space" -> "baseColorAttribSpace"
      [] name = "base_color_attrib" -> "baseColorAttrib"
      [] name = "roughness_attrib" -> "roughnessAttrib"
      [] name = "metallic_attrib" -> "metallicAttrib"
      [] name = "occlusion_attrib" -> "occlusionAttrib"
      [] name = "emissive_attrib" -> "emissiveAttrib"
      [] name = "shadow_attrib" -> "shadowAttrib"
      [] name = "shadow_texture" -> "shadowTexture"
      [] name = "diffuse_factor" -> "diffuseFactor"
      [] name = "diffuse_texture" -> "diffuseTexture"
      [] name = "specular_factor" -> "specularFactor"
      [] name = "glossiness_factor" -> "glossinessFactor"
      [] name = "specular_glossiness_texture" -> "specularGlossinessTexture"
      [] name = "extras" -> "extras"

PbrAttributesFields == <<"base_color_attrib_space">> \o AttribFields

default_PbrAttributes ==
    [f \in {PbrAttributesFields[i] : i \in DOMAIN PbrAttributesFields} |->
        IF f = "base_color_attrib_space" THEN default_Checked_ColorSpace ELSE None]

deserialize_OptString(j) == deserialize_Option(j, deserialize_String(j))

deserialize_PbrAttributes(j) ==
    IF j.t # "obj" THEN Err("invalid type")
    ELSE LET rs == [i \in DOMAIN PbrAttributesFields |->
                      LET f == PbrAttributesFields[i]
                      IN IF f = "base_color_attrib_space"
                         THEN FieldOr(Lookup(j, camelCase(f)),
                                      deserialize_Checked_ColorSpace(Lookup(j, camelCase(f))),
                                      default_PbrAttributes[f])
                         ELSE FieldOr(Lookup(j, camelCase(f)),
                                      deserialize_OptString(Lookup(j, camelCase(f))),
                                      default_PbrAttributes[f])]
         IN IF AllOk(rs)
            THEN Ok([f \in DOMAIN default_PbrAttributes |->
                       rs[CHOOSE i \in DOMAIN PbrAttributesFields :
                              PbrAttributesFields[i] = f].v])
            ELSE FirstErr(rs)

serialize_PbrAttributes(a) ==
    LET cs == serialize_Checked_ColorSpace(a.base_color_attrib_space)
    IN IF ~cs.ok THEN cs
       ELSE Ok(JObj(Members(
              [k \in {camelCase(PbrAttributesFields[i]) : i \in DOMAIN PbrAttributesFields} |->
                 IF k = "baseColorAttribSpace" THEN cs.v
                 ELSE LET f == CHOOSE g \in DOMAIN a : camelCase(g) = k
                      IN IF a[f].some THEN JStr(a[f].v) ELSE Absent])))

RECURSIVE Flatten(_)
Flatten(ss) == IF ss = <<>> THEN <<>> ELSE Head(ss) \o Flatten(Tail(ss))

validate_PbrAttributes_unnamed(a, path) ==
    validate_Checked(a.base_color_attrib_space, path)

\* derive(Validate): every field in declaration order, the path extended by its name
validate_PbrAttributes(a, path) ==
    Flatten([i \in DOMAIN PbrAttributesFields |->
        LET f == PbrAttributesFields[i]
        IN IF f = "base_color_attrib_space"
           THEN validate_Checked(a[f], field(path, camelCase(f)))
           ELSE validate_OptString(a[f], field(path, camelCase(f)))])

(* ------------------------------- AAShadow ------------------------------ *)
default_AAShadow == [shadow_texture |-> None]

deserialize_AAShadow(j) ==
    IF j.t # "obj" THEN Err("invalid type")
    ELSE LET r == FieldOr(Lookup(j, "shadowTexture"),
                          deserialize_OptInfo(Lookup(j, "shadowTexture")), None)
         IN IF r.ok THEN Ok([shadow_texture |-> r.v]) ELSE r

\* shadow_texture carries no skip_serializing_if: None is written as null
serialize_AAShadow(s) ==
    LET r == serialize_OptInfo(s.shadow_texture)
    IN IF r.ok THEN Ok(JObj([k \in {"shadowTexture"} |-> r.v])) ELSE r

validate_AAShadow(s, path) ==
    validate_OptInfo(s.shadow_texture, field(path, "shadowTexture"))

(* ------------------------ PbrSpecularGlossiness ------------------------ *)
PbrSpecularGlossinessFields ==
    <<"diffuse_factor", "diffuse_texture", "specular_factor", "glossiness_factor",
      "specular_glossiness_texture", "extras">>

default_PbrSpecularGlossiness ==
    [diffuse_factor |-> default_PbrDiffuseFactor,
     diffuse_texture |-> None,
     specular_factor |-> default_PbrSpecularFactor,
     glossiness_factor |-> default_StrengthFactor,
     specular_glossiness_texture |-> None,
     extras |-> None]

deserialize_PbrSpecularGlossiness(j) ==
    IF j.t # "obj" THEN Err("invalid type")
    ELSE LET d == default_PbrSpecularGlossiness
             df == Lookup(j, "diffuseFactor")
             dt == Lookup(j, "diffuseTexture")
             sf == Lookup(j, "specularFactor")
             gf == Lookup(j, "glossinessFactor")
             sgt == Lookup(j, "specularGlossinessTexture")
             rs == <<FieldOr(df, deserialize_PbrDiffuseFactor(df), d.diffuse_factor),
                     FieldOr(dt, deserialize_OptInfo(dt), d.diffuse_texture),
                     FieldOr(sf, deserialize_PbrSpecularFactor(sf), d.specular_factor),
                     FieldOr(gf, deserialize_f32(gf), d.glossiness_factor),
                     FieldOr(sgt, deserialize_OptInfo(sgt), d.specular_glossiness_texture),
                     Ok(d.extras)>>
         IN IF AllOk(rs)
            THEN Ok([f \in DOMAIN d |->
                       rs[CHOOSE i \in DOMAIN PbrSpecularGlossinessFields :
                              PbrSpecularGlossinessFields[i] = f].v])
            ELSE FirstErr(rs)

serialize_PbrSpecularGlossiness(p) ==
    Ok(JObj(Members(
        [k \in {camelCase(PbrSpecularGlossinessFields[i]) :
                    i \in DOMAIN PbrSpecularGlossinessFields} |->
           CASE k = "diffuseFactor" -> serialize_Factor(p.diffuse_factor).v
             [] k = "diffuseTexture" ->
                  IF p.diffuse_texture.some
                  THEN serialize_Info(p.diffuse_texture.v).v ELSE Absent
             [] k = "specularFactor" -> serialize_Factor(p.specular_factor).v
             [] k = "glossinessFactor" -> JNum(p.glossiness_factor)
             [] k = "specularGlossinessTexture" ->
                  IF p.specular_glossiness_texture.some
                  THEN serialize_Info(p.specular_glossiness_texture.v).v ELSE Absent
             [] k = "extras" -> Absent])))

\* derive(Validate): every field in declaration order, the path extended by its name
validate_PbrSpecularGlossiness(p, path) ==
    validate_PbrDiffuseFactor(p.diffuse_factor, field(path, "diffuseFactor"))
    \o validate_OptInfo(p.diffuse_texture, field(path, "diffuseTexture"))
    \o validate_PbrSpecularFactor(p.specular_factor, field(path, "specularFactor"))
    \o validate_StrengthFactor(p.glossiness_factor, field(path, "glossinessFactor"))
    \o validate_OptInfo(p.specular_glossiness_texture,
                        field(path, "specularGlossinessTexture"))

(* ------------------------------- Material ------------------------------ *)
SlotFields == <<"pbr_specular_glossiness", "unlit", "ext_pbr_attributes", "aa_shadow">>

Slots == {SlotFields[i] : i \in DOMAIN SlotFields}

\* serde(rename = ...)
SlotKey(f) ==
    CASE f = "pbr_specular_glossiness" -> "KHR_materials_pbrSpecularGlossiness"
      [] f = "unlit" -> "KHR_materials_unlit"
      [] f = "ext_pbr_attributes" -> "EXT_pbr_attributes"
      [] f = "aa_shadow" -> "AA_shadow"

SlotKeys == {SlotKey(f) : f \in Slots}

default_Material == [f \in Slots |-> None]

deserialize_Payload(f, j) ==
    CASE f = "pbr_specular_glossiness" -> deserialize_PbrSpecularGlossiness(j)
      [] f = "unlit" -> deserialize_Unlit(j)
      [] f = "ext_pbr_attributes" -> deserialize_PbrAttributes(j)
      [] f = "aa_shadow" -> deserialize_AAShadow(j)

serialize_Payload(f, x) ==
    CASE f = "pbr_specular_glossiness" -> serialize_PbrSpecularGlossiness(x)
      [] f = "unlit" -> serialize_Unlit(x)
      [] f = "ext_pbr_attributes" -> serialize_PbrAttributes(x)
      [] f = "aa_shadow" -> serialize_AAShadow(x)

validate_Payload(f, x, path) ==
    CASE f = "pbr_specular_glossiness" -> validate_PbrSpecularGlossiness(x, path)
      [] f = "unlit" -> validate_Unlit(x, path)
      [] f = "ext_pbr_attributes" -> validate_PbrAttributes(x, path)
      [] f = "aa_shadow" -> validate_AAShadow(x, path)

deserialize_Slot(f, j) ==
    FieldOr(j, deserialize_Option(j, deserialize_Payload(f, j)), None)

deserialize_Material_strict(j) ==
    IF j.t # "obj" THEN Err("invalid type")
    ELSE IF DOMAIN j.v \ SlotKeys # {} THEN Err("unknown field")
    ELSE LET rs == [i \in DOMAIN SlotFields |->
                      deserialize_Slot(SlotFields[i], Lookup(j, SlotKey(SlotFields[i])))]
         IN IF AllOk(rs)
            THEN Ok([f \in Slots |-> rs[CHOOSE i \in DOMAIN SlotFields : SlotFields[i] = f].v])
            ELSE FirstErr(rs)

\* derive(Deserialize), serde(default) on every slot, no deny_unknown_fields
deserialize_Material(j) ==
    IF j.t # "obj" THEN Err("invalid type")
    ELSE LET rs == [i \in DOMAIN SlotFields |->
                      deserialize_Slot(SlotFields[i], Lookup(j, SlotKey(SlotFields[i])))]
         IN IF AllOk(rs)
            THEN Ok([f \in Slots |-> rs[CHOOSE i \in DOMAIN SlotFields : SlotFields[i] = f].v])
            ELSE FirstErr(rs)

serialize_Material_nulls(m) ==
    LET rs == [i \in DOMAIN SlotFields |->
                 IF m[SlotFields[i]].some
                 THEN serialize_Payload(SlotFields[i], m[SlotFields[i]].v)
                 ELSE Ok(JNull)]
    IN IF AllOk(rs)
       THEN Ok(JObj([k \in SlotKeys |->
                       rs[CHOOSE i \in DOMAIN SlotFields : SlotKey(SlotFields[i]) = k].v]))
       ELSE FirstErr(rs)

\* derive(Serialize), skip_serializing_if = "Option::is_none" on every slot
serialize_Material(m) ==
    LET rs == [i \in DOMAIN SlotFields |->
                 IF m[SlotFields[i]].some
                 THEN serialize_Payload(SlotFields[i], m[SlotFields[i]].v)
                 ELSE Ok(Absent)]
    IN IF AllOk(rs)
       THEN Ok(JObj(Members([k \in SlotKeys |->
                       rs[CHOOSE i \in DOMAIN SlotFields : SlotKey(SlotFields[i]) = k].v])))
       ELSE FirstErr(rs)

\* an absent slot is skipped; a present payload is walked under the slot's key
validate_Slot(m, f, path) ==
    IF m[f].some THEN validate_Payload(f, m[f].v, field(path, SlotKey(f))) ELSE <<>>

validate_Material_first_only(m, path) ==
    LET all == Flatten([i \in DOMAIN SlotFields |-> validate_Slot(m, SlotFields[i], path)])
    IN IF all = <<>> THEN <<>> ELSE <<Head(all)>>

validate_Material_shadow_first(m, path) ==
    validate_Slot(m, "aa_shadow", path)
    \o validate_Slot(m, "pbr_specular_glossiness", path)
    \o validate_Slot(m, "unlit", path)
    \o validate_Slot(m, "ext_pbr_attributes", path)

\* derive(Validate): every slot in declaration order, the path extended by its name
validate_Material(m, path) ==
    Flatten([i \in DOMAIN SlotFields |-> validate_Slot(m, SlotFields[i], path)])

(* ------------------------ dispatch on the root type -------------------- *)
Types == {"Checked<ColorSpace>", "PbrDiffuseFactor", "PbrSpecularFactor",
          "PbrAttributes", "PbrSpecularGlossiness", "Material"}

Deserialize(T, j) ==
    CASE T = "Checked<ColorSpace>" -> deserialize_Checked_ColorSpace(j)
      [] T = "PbrDiffuseFactor" -> deserialize_PbrDiffuseFactor(j)
      [] T = "PbrSpecularFactor" -> deserialize_PbrSpecularFactor(j)
      [] T = "PbrAttributes" -> deserialize_PbrAttributes(j)
      [] T = "PbrSpecularGlossiness" -> deserialize_PbrSpecularGlossiness(j)
      [] T = "Material" -> deserialize_Material(j)

Serialize(T, x) ==
    CASE T = "Checked<ColorSpace>" -> serialize_Checked_ColorSpace(x)
      [] T = "PbrDiffuseFactor" -> serialize_Factor(x)
      [] T = "PbrSpecularFactor" -> serialize_Factor(x)
      [] T = "PbrAttributes" -> serialize_PbrAttributes(x)
      [] T = "PbrSpecularGlossiness" -> serialize_PbrSpecularGlossiness(x)
      [] T = "Material" -> serialize_Material(x)

Validate(T, x, path) ==
    CASE T = "Checked<ColorSpace>" -> validate_Checked(x, path)
      [] T = "PbrDiffuseFactor" -> validate_PbrDiffuseFactor(x, path)
      [] T = "PbrSpecularFactor" -> validate_PbrSpecularFactor(x, path)
      [] T = "PbrAttributes" -> validate_PbrAttributes(x, path)
      [] T = "PbrSpecularGlossiness" -> validate_PbrSpecularGlossiness(x, path)
      [] T = "Material" -> validate_Material(x, path)

DefaultOf(T) ==
    CASE T = "Checked<ColorSpace>" -> default_Checked_ColorSpace
      [] T = "PbrDiffuseFactor" -> default_PbrDiffuseFactor
      [] T = "PbrSpecularFactor" -> default_PbrSpecularFactor
      [] T = "PbrAttributes" -> default_PbrAttributes
      [] T = "PbrSpecularGlossiness" -> default_PbrSpecularGlossiness
      [] T = "Material" -> default_Material

(* ------------------------------ inputs --------------------------------- *)
WireStrings == {"sRGB", "linear", "SRGB", "Linear", "LINEAR", "srgb", "", "sRGB "}

NonStrings == {JNum(0), JBool, JNull, JArr(<<>>), JObj(<<>>)}

WireColorSpaces == {JStr(s) : s \in WireStrings} \cup NonStrings

Components == (0 - MaxOver) .. (One + MaxOver)

WireFactors(n) ==
    {JArr([i \in 1..n |-> JNum(c[i])]) : c \in [1..n -> Components]}
    \cup {JArr(<<JNum(0)>>), JNum(One), JArr([i \in 1..n |-> JStr("1.0")])}

WireInfoOk == JObj([k \in {"index"} |-> JNum(0)])
WireInfoBad == JObj([k \in {"index"} |-> JNum(NumTextures)])

OptStr == {Absent, JStr("COLOR_0")}

WirePbrAttributes ==
    {JObj(Members([k \in {camelCase(PbrAttributesFields[i]) : i \in DOMAIN PbrAttributesFields} |->
        CASE k = "baseColorAttribSpace" -> cs
          [] k = "baseColorAttrib" -> a1
          [] k = "roughnessAttrib" -> a2
          [] k = "metallicAttrib" -> a3
          [] k = "occlusionAttrib" -> a4
          [] k = "emissiveAttrib" -> a5
          [] k = "shadowAttrib" -> a6])) :
        cs \in WireColorSpaces \cup {Absent},
        a1 \in OptStr \cup {JStr(""), JNull},
        a2 \in OptStr, a3 \in OptStr, a4 \in OptStr, a5 \in OptStr, a6 \in OptStr}

PsgObject(df, dt, sf, gf, sgt) ==
    JObj(Members([k \in {"diffuseFactor", "diffuseTexture", "specularFactor",
                         "glossinessFactor", "specularGlossinessTexture"} |->
        CASE k = "diffuseFactor" -> df
          [] k = "diffuseTexture" -> dt
          [] k = "specularFactor" -> sf
          [] k = "glossinessFactor" -> gf
          [] k = "specularGlossinessTexture" -> sgt]))

Over4 == JArr(<<JNum(One + 1), JNum(0), JNum(0), JNum(0)>>)
Mixed4 == JArr(<<JNum(0 - 1), JNum(One + 1), JNum(0), JNum(0)>>)
Over3 == JArr(<<JNum(One + 1), JNum(0), JNum(0)>>)

WirePbrSpecularGlossiness ==
    {PsgObject(df, dt, sf, gf, sgt) :
        df \in {Absent, Over4, Mixed4},
        dt \in {Absent, WireInfoOk, WireInfoBad},
        sf \in {Absent, Over3},
        gf \in {Absent, JNum(One - 1), JNum(One + 1)},
        sgt \in {Absent, WireInfoOk, WireInfoBad}}

\* the payloads tried inside a Material
SlotPsg ==
    {Absent} \cup
    {PsgObject(df, dt, Absent, gf, sgt) :
        df \in {Absent, Over4}, dt \in {Absent, WireInfoBad},
        gf \in {Absent, JNum(One + 1)}, sgt \in {Absent, WireInfoBad}}

SlotUnlit == {Absent, JNull, JObj(<<>>)}

SlotAttrs ==
    {Absent} \cup
    {JObj(Members([k \in {"baseColorAttribSpace", "shadowAttrib"} |->
        IF k = "baseColorAttribSpace" THEN cs ELSE a])) :
        cs \in {Absent, JStr("sRGB"), JStr("SRGB"), JNum(0)}, a \in OptStr}

SlotShadow ==
    {Absent, JObj(<<>>)} \cup
    {JObj([k \in {"shadowTexture"} |-> i]) : i \in {WireInfoOk, WireInfoBad}}

UnknownKey == "XX_unknown"

WireMaterials ==
    {JObj(Members([k \in SlotKeys \cup {UnknownKey} |->
        CASE k = "KHR_materials_pbrSpecularGlossiness" -> p
          [] k = "KHR_materials_unlit" -> u
          [] k = "EXT_pbr_attributes" -> a
          [] k = "AA_shadow" -> s
          [] k = UnknownKey -> x])) :
        p \in SlotPsg, u \in SlotUnlit, a \in SlotAttrs, s \in SlotShadow,
        x \in {Absent, JObj([k \in {"baseColorAttribSpace"} |-> JStr("bogus")])}}

WireInputs(T) ==
    CASE T = "Checked<ColorSpace>" -> WireColorSpaces
      [] T = "PbrDiffuseFactor" -> WireFactors(4)
      [] T = "PbrSpecularFactor" -> WireFactors(3)
      [] T = "PbrAttributes" -> WirePbrAttributes
      [] T = "PbrSpecularGlossiness" -> WirePbrSpecularGlossiness
      [] T = "Material" -> WireMaterials

BasePaths == {<<>>, <<"materials", "0", "extensions">>}

(* --------------------------- the pipeline ------------------------------ *)
NotRun(r) == ~r.ok /\ r.err = "not run"

Init ==
    /\ ty \in Types
    /\ wire \in WireInputs(ty) \cup {Absent}
    /\ doc = Idle
    /\ at = <<>>
    /\ report = <<>>
    /\ prevReport = <<>>
    /\ passes = 0
    /\ out = Idle
    /\ doc2 = Idle

\* T::default(): a value built without any input
Construct ==
    /\ NotRun(doc)
    /\ wire.t = "absent"
    /\ doc' = Ok(DefaultOf(ty))
    /\ UNCHANGED <<ty, wire, at, report, prevReport, passes, out, doc2>>

\* from_value::<T>(wire)
Decode ==
    /\ NotRun(doc)
    /\ wire.t # "absent"
    /\ doc' = Deserialize(ty, wire)
    /\ UNCHANGED <<ty, wire, at, report, prevReport, passes, out, doc2>>

\* value.validate(root, path, report), collecting every finding in order
RunValidate ==
    /\ doc.ok
    /\ passes < MaxPasses
    /\ \E p \in BasePaths :
          /\ passes > 0 => p = at
          /\ at' = p
          /\ report' = Validate(ty, doc.v, p)
    /\ prevReport' = report
    /\ passes' = passes + 1
    /\ UNCHANGED <<ty, wire, doc, out, doc2>>

\* to_value(&value)
Encode ==
    /\ doc.ok
    /\ NotRun(out)
    /\ out' = Serialize(ty, doc.v)
    /\ UNCHANGED <<ty, wire, doc, at, report, prevReport, passes, doc2>>

\* from_value::<T>(out): the encoded value read back
Reparse ==
    /\ out.ok
    /\ NotRun(doc2)
    /\ doc2' = Deserialize(ty, out.v)
    /\ UNCHANGED <<ty, wire, doc, at, report, prevReport, passes, out>>

Next == Construct \/ Decode \/ RunValidate \/ Encode \/ Reparse

Spec == Init /\ [][Next]_vars

(* ============================ properties =============================== *)
Ran(r) == ~NotRun(r)

SeqSet(q) == {q[i] : i \in DOMAIN q}

IsUnder(path, prefix) ==
    Len(path) >= Len(prefix) /\ SubSeq(path, 1, Len(prefix)) = prefix

IndexIn(q, x) == IF \E i \in DOMAIN q : q[i] = x
                 THEN CHOOSE i \in DOMAIN q : q[i] = x ELSE 0

ExpectedColorSpace(str) ==
    IF str = "sRGB" THEN Valid("SRGB")
    ELSE IF str = "linear" THEN Valid("Linear") ELSE Invalid

\* C1: decoding a Checked<ColorSpace> from any string succeeds, giving Valid(SRGB)
\* for "sRGB", Valid(Linear) for "linear" and Invalid for every other string,
\* case variants and the empty string included; the same holds for the field of
\* a PbrAttributes decoded from a string
C1_StringDecodeNeverFails ==
    /\ (ty = "Checked<ColorSpace>" /\ wire.t = "str" /\ Ran(doc))
          => (doc.ok /\ doc.v = ExpectedColorSpace(wire.v))
    /\ (ty = "PbrAttributes" /\ wire.t = "obj" /\ doc.ok
          /\ HasKey(wire, "baseColorAttribSpace"))
          => /\ wire.v["baseColorAttribSpace"].t = "str"
             /\ doc.v.base_color_attrib_space =
                    ExpectedColorSpace(wire.v["baseColorAttribSpace"].v)

C1_Witness ==
    /\ ty = "Checked<ColorSpace>"
    /\ wire = JStr("SRGB")
    /\ doc.ok
    /\ ~doc.v.valid

\* C2: validating a PbrDiffuseFactor or a PbrSpecularFactor reports Invalid exactly
\* once when some component lies outside [0.0, 1.0] and reports nothing when every
\* component lies inside
C2_FactorRangeReported ==
    (ty \in {"PbrDiffuseFactor", "PbrSpecularFactor"} /\ doc.ok /\ passes >= 1)
       => IF \E i \in DOMAIN doc.v : ~InUnitInterval(doc.v[i])
          THEN Len(report) = 1 /\ report[1].kind = "Invalid"
          ELSE report = <<>>

OnlySlot(m, f) == [default_Material EXCEPT ![f] = m[f]]

\* C3: the findings of a Material are exactly those each present payload reports
\* on its own, none lost and none added; a finding in one slot or field never
\* suppresses a sibling's, and an absent slot contributes none
C3_SlotsIndependent ==
    (ty = "Material" /\ doc.ok /\ passes >= 1)
       => /\ SeqSet(report) =
                UNION {SeqSet(validate_Material(OnlySlot(doc.v, f), at)) : f \in Slots}
          /\ \A f \in Slots :
                LET own == validate_Material(OnlySlot(doc.v, f), at)
                IN /\ SelectSeq(report, LAMBDA e : IsUnder(e.path, field(at, SlotKey(f)))) = own
                   /\ ~doc.v[f].some => own = <<>>
          /\ LET p == doc.v.pbr_specular_glossiness
                 here == field(at, SlotKey("pbr_specular_glossiness"))
             IN (p.some /\ p.v.specular_glossiness_texture.some
                   /\ p.v.specular_glossiness_texture.v.index >= NumTextures)
                  => \E i \in DOMAIN report :
                        report[i].path =
                            field(field(here, "specularGlossinessTexture"), "index")

C3_Witness ==
    /\ ty = "Material"
    /\ doc.ok
    /\ passes >= 1
    /\ Len(report) >= 5
    /\ ~doc.v.unlit.some

AttribsFinding(a, path) ==
    IF a.base_color_attrib_space.valid THEN <<>>
    ELSE <<Finding(field(path, "baseColorAttribSpace"), "Invalid")>>

\* C4: validating a PbrAttributes whose base_color_attrib_space is Invalid reports
\* exactly one finding, of kind Invalid, at the PbrAttributes' own path extended by
\* baseColorAttribSpace; when the field is Valid nothing is reported, whatever the
\* six attribute names hold
C4_InvalidColorSpaceReportedOnce ==
    /\ (ty = "PbrAttributes" /\ doc.ok /\ passes >= 1)
          => report = AttribsFinding(doc.v, at)
    /\ (ty = "Material" /\ doc.ok /\ passes >= 1 /\ doc.v.ext_pbr_attributes.some)
          => LET here == field(at, SlotKey("ext_pbr_attributes"))
             IN SelectSeq(report, LAMBDA e : IsUnder(e.path, here))
                    = AttribsFinding(doc.v.ext_pbr_attributes.v, here)

C4_Witness ==
    /\ ty = "PbrAttributes"
    /\ doc.ok
    /\ ~doc.v.base_color_attrib_space.valid
    /\ doc.v.base_color_attrib.some
    /\ doc.v.shadow_attrib.some
    /\ passes >= 1
    /\ report = <<Finding(<<"materials", "0", "extensions", "baseColorAttribSpace">>,
                          "Invalid")>>

\* C5: for x in {"sRGB", "linear"} encoding the decoded value gives back x; for every
\* variant v decoding the encoding of v gives Valid(v); the strings encode emits, the
\* strings decode accepts as Valid and the entries of VALID_COLOR_SPACES coincide
C5_ColorSpaceRoundTrip ==
    /\ (ty = "Checked<ColorSpace>" /\ wire.t = "str" /\ wire.v \in {"sRGB", "linear"}
          /\ Ran(out)) => (out.ok /\ out.v = wire)
    /\ (ty = "Checked<ColorSpace>" /\ doc.ok /\ doc.v.valid /\ Ran(doc2))
          => (doc2.ok /\ doc2.v.valid /\ doc2.v.v = doc.v.v)
    /\ (ty = "Checked<ColorSpace>" /\ out.ok)
          => (out.v.t = "str" /\ out.v.v \in SeqSet(VALID_COLOR_SPACES))
    /\ (ty = "Checked<ColorSpace>" /\ wire.t = "str" /\ doc.ok)
          => (doc.v.valid <=> wire.v \in SeqSet(VALID_COLOR_SPACES))
    /\ {serialize_ColorSpace(c).v : c \in ColorSpace} = SeqSet(VALID_COLOR_SPACES)

C5_Witness ==
    /\ ty = "Checked<ColorSpace>"
    /\ wire = JStr("sRGB")
    /\ out.ok
    /\ out.v = wire
    /\ doc2.ok
    /\ doc2.v.valid
    /\ doc2.v.v = "SRGB"

PresentKeys(m) == {SlotKey(f) : f \in {g \in Slots : m[g].some}}

\* C6: an encoded Material carries the key of a slot exactly when the slot is
\* present; with every slot absent the encoding is the empty object, never keys
\* holding null
C6_AbsentSlotsOmitted ==
    /\ (ty = "Material" /\ out.ok)
          => (out.v.t = "obj" /\ DOMAIN out.v.v = PresentKeys(doc.v))
    /\ (ty = "Material" /\ doc.ok /\ PresentKeys(doc.v) = {} /\ Ran(out))
          => (out.ok /\ out.v.t = "obj" /\ DOMAIN out.v.v = {})

C6_Witness ==
    /\ ty = "Material"
    /\ wire.t = "obj"
    /\ HasKey(wire, "KHR_materials_unlit")
    /\ wire.v["KHR_materials_unlit"].t = "null"
    /\ out.ok
    /\ DOMAIN out.v.v = {"AA_shadow", "EXT_pbr_attributes"}

Known(w) == JObj([k \in DOMAIN w.v \cap SlotKeys |-> w.v[k]])

ColorSpaceShapeOk(w) ==
    ~(/\ HasKey(w, "EXT_pbr_attributes")
      /\ HasKey(w.v["EXT_pbr_attributes"], "baseColorAttribSpace")
      /\ w.v["EXT_pbr_attributes"].v["baseColorAttribSpace"].t # "str")

\* C7: a Material object holding an unknown key beside known ones decodes; every
\* slot is filled from its own key only, a slot whose key is missing is absent,
\* the unknown key changes nothing in the decoded value, and only the known
\* extensions appear among the findings
C7_UnknownKeysIgnored ==
    (ty = "Material" /\ wire.t = "obj" /\ HasKey(wire, UnknownKey) /\ Ran(doc))
       => /\ ColorSpaceShapeOk(wire) => doc.ok
          /\ doc.ok = deserialize_Material(Known(wire)).ok
          /\ doc.ok =>
               /\ doc.v = deserialize_Material(Known(wire)).v
               /\ \A f \in Slots :
                     /\ ~HasKey(wire, SlotKey(f)) => ~doc.v[f].some
                     /\ (HasKey(wire, SlotKey(f)) /\ wire.v[SlotKey(f)].t = "obj")
                           => doc.v[f].some
               /\ \A i \in DOMAIN report :
                     /\ report[i].path[Len(at) + 1] \in PresentKeys(doc.v)
                     /\ \A n \in DOMAIN report[i].path : report[i].path[n] # UnknownKey

C7_Witness ==
    /\ ty = "Material"
    /\ wire.t = "obj"
    /\ HasKey(wire, UnknownKey)
    /\ doc.ok
    /\ doc.v.ext_pbr_attributes.some
    /\ ~doc.v.aa_shadow.some
    /\ passes >= 1
    /\ Len(report) = 1

\* C8: a Checked<ColorSpace> given a value that is not a string (number, boolean,
\* null, array, object) fails to decode with a type mismatch, and the enclosing
\* PbrAttributes and Material then fail to decode as a whole
C8_NonStringIsShapeError ==
    /\ (ty = "Checked<ColorSpace>" /\ wire.t \in {"num", "bool", "null", "arr", "obj"}
          /\ Ran(doc)) => (~doc.ok /\ doc.err = "invalid type")
    /\ (ty = "PbrAttributes" /\ wire.t = "obj" /\ HasKey(wire, "baseColorAttribSpace")
          /\ wire.v["baseColorAttribSpace"].t # "str" /\ Ran(doc))
          => (~doc.ok /\ doc.err = "invalid type")
    /\ (ty = "Material" /\ wire.t = "obj" /\ ~ColorSpaceShapeOk(wire) /\ Ran(doc))
          => (~doc.ok /\ doc.err = "invalid type" /\ passes = 0 /\ NotRun(out))

C8_Witness ==
    /\ ty = "Material"
    /\ wire.t = "obj"
    /\ ~ColorSpaceShapeOk(wire)
    /\ HasKey(wire, "AA_shadow")
    /\ Ran(doc)
    /\ ~doc.ok

DeclaredSlots == <<"KHR_materials_pbrSpecularGlossiness", "KHR_materials_unlit",
                   "EXT_pbr_attributes", "AA_shadow">>

DeclaredFields == <<"diffuseFactor", "diffuseTexture", "specularFactor",
                    "glossinessFactor", "specularGlossinessTexture">>

SegmentOf(e, n) == IF Len(e.path) >= Len(at) + n THEN e.path[Len(at) + n] ELSE ""

Precedes(T, e, g) ==
    IF T = "Material"
    THEN \/ IndexIn(DeclaredSlots, SegmentOf(e, 1)) < IndexIn(DeclaredSlots, SegmentOf(g, 1))
         \/ /\ SegmentOf(e, 1) = SegmentOf(g, 1)
            /\ IndexIn(DeclaredFields, SegmentOf(e, 2)) < IndexIn(DeclaredFields, SegmentOf(g, 2))
    ELSE IndexIn(DeclaredFields, SegmentOf(e, 1)) < IndexIn(DeclaredFields, SegmentOf(g, 1))

InDeclarationOrder ==
    (ty \in {"Material", "PbrSpecularGlossiness"} /\ passes >= 1)
       => \A i, j \in DOMAIN report : i < j => Precedes(ty, report[i], report[j])

\* C9: validating the same tree again yields the identical sequence of (path, kind)
\* pairs; findings come in declaration order of the slots and, inside
\* PbrSpecularGlossiness, of its fields; validation leaves the tree unchanged
C9_StableDeclarationOrder ==
    /\ [](InDeclarationOrder /\ (passes >= 2 => prevReport = report))
    /\ [][passes' # passes => (doc' = doc /\ wire' = wire)]_vars

C9_Witness ==
    /\ ty = "Material"
    /\ passes >= 2
    /\ prevReport = report
    /\ Len(report) >= 4
    /\ \E i \in DOMAIN report : SegmentOf(report[i], 2) = "diffuseTexture"
    /\ \E i \in DOMAIN report : SegmentOf(report[i], 2) = "glossinessFactor"
    /\ \E i \in DOMAIN report : SegmentOf(report[i], 1) = "AA_shadow"

Defaulted == wire = Absent \/ wire = JObj(<<>>)

\* C10: default construction and decoding an empty object give valid payloads: a
\* PbrSpecularGlossiness with diffuse factor [1,1,1,1], specular factor [1,1,1] and
\* no texture, a ColorSpace of Linear, a PbrAttributes without attribute names;
\* validating any of them reports nothing
C10_DefaultsAreValid ==
    /\ (ty = "PbrSpecularGlossiness" /\ Defaulted /\ Ran(doc))
          => /\ doc.ok
             /\ doc.v.diffuse_factor = <<One, One, One, One>>
             /\ doc.v.specular_factor = <<One, One, One>>
             /\ \A i \in 1..4 : InUnitInterval(doc.v.diffuse_factor[i])
             /\ \A i \in 1..3 : InUnitInterval(doc.v.specular_factor[i])
             /\ ~doc.v.diffuse_texture.some
             /\ ~doc.v.specular_glossiness_texture.some
    /\ (ty = "Checked<ColorSpace>" /\ wire = Absent /\ Ran(doc))
          => (doc.ok /\ doc.v.valid /\ doc.v.v = "Linear")
    /\ (ty = "PbrAttributes" /\ Defaulted /\ Ran(doc))
          => /\ doc.ok
             /\ doc.v.base_color_attrib_space.valid
             /\ doc.v.base_color_attrib_space.v = "Linear"
             /\ \A i \in DOMAIN AttribFields : ~doc.v[AttribFields[i]].some
    /\ (ty = "Material" /\ wire.t = "obj" /\ doc.ok
          /\ HasKey(wire, "KHR_materials_pbrSpecularGlossiness")
          /\ wire.v["KHR_materials_pbrSpecularGlossiness"] = JObj(<<>>))
          => /\ doc.v.pbr_specular_glossiness.some
             /\ doc.v.pbr_specular_glossiness.v.diffuse_factor = <<One, One, One, One>>
             /\ doc.v.pbr_specular_glossiness.v.specular_factor = <<One, One, One>>
    /\ (Defaulted /\ passes >= 1) => report = <<>>

C10_Witness ==
    /\ ty = "PbrSpecularGlossiness"
    /\ wire = JObj(<<>>)
    /\ doc.ok
    /\ doc.v.diffuse_factor = <<One, One, One, One>>
    /\ passes >= 1
    /\ report = <<>>

====
